---- MODULE Spec2Model ----
(***************************************************************************)
(* A model of django_ses/views.py: the statistics helpers stats_to_list    *)
(* and sum_stats, the superuser-only dashboard view with its response      *)
(* cache, and the handle_bounce webhook view.                              *)
(*                                                                         *)
(* Strings that the code parses or compares (timestamps, counters) are     *)
(* sequences of one-character strings, so that strptime, int() and the     *)
(* lexicographic order of str are computed, not assumed.                   *)
(***************************************************************************)
EXTENDS Integers, Sequences, FiniteSets, TLC

VARIABLES
    \* ---- stats_to_list (one call, followed statement by statement)
    heap,          \* the datapoint dicts, by reference: ref -> dict
    stats_dict,    \* the caller's SendDataPoints list: a sequence of refs
    entry,         \* the caller's datapoint dicts as they were at the call
    localize,      \* the localize argument: TRUE for pytz, FALSE for None
    time_zone,     \* settings.TIME_ZONE
    result,        \* result['SendDataPoints'] of the function: a sequence of refs
    datapoints,    \* the local list datapoints: a sequence of refs
    idx,           \* position of the for loop in result['SendDataPoints']
    pc,            \* "call", "loop", "sort", "returned", "raised"
    ret,           \* the value returned: a sequence of dicts
    \* ---- sum_stats
    seq_a, seq_b,  \* two datapoint sequences
    sums,          \* results of sum_stats, by the name of the argument
    \* ---- handle_bounce
    logger_level,  \* the level the logging configuration gives the logger
    request,       \* the body of the latest webhook call
    response,      \* what the latest call returned or raised
    effects,       \* the log records and signals of the latest call, in order
    bounce_sink,   \* every signal the receivers of bounce_received got
    complaint_sink,\* every signal the receivers of complaint_received got
    calls,         \* number of webhook calls so far
    classified,    \* number of calls so far that the view classified as
                   \* Bounce or Complaint (that entered one of the two branches)
    \* ---- dashboard
    cache,         \* the cache entry vhash:django_ses_stats
    now,           \* the time, in seconds
    api_epoch,     \* which statistics the remote API holds
    \* ---- the dashboard requests, each a function of the request
    dash_pc,       \* where the request is: "idle" before it arrives, the
                   \* operation it is about to do, "returned" or "raised"
    is_superuser,  \* request.user.is_superuser
    dash_stats,    \* the local stats: which statistics the API returned
    dash_response, \* what the request returned or raised
    dash_ops,      \* the cache and API operations of the request, in order
    dash_live      \* whether the cache held a live page when the request
                   \* arrived (observed, not read by the code)

stats_vars == <<heap, stats_dict, entry, localize, time_zone, result,
                datapoints, idx, pc, ret>>
sum_vars == <<seq_a, seq_b, sums>>
hook_vars == <<logger_level, request, response, effects, bounce_sink,
               complaint_sink, calls, classified>>
dash_vars == <<cache, now, api_epoch, dash_pc, is_superuser, dash_stats,
               dash_response, dash_ops, dash_live>>
vars == <<stats_vars, sum_vars, hook_vars, dash_vars>>

\* What a step of one part of the program leaves alone: the other parts.
not_stats == <<sum_vars, hook_vars, dash_vars>>
not_sum == <<stats_vars, hook_vars, dash_vars>>
not_hook == <<stats_vars, sum_vars, dash_vars>>
not_dash == <<stats_vars, sum_vars, hook_vars>>

\* ------------------------------------------------------------------ bounds
\* Longest SendDataPoints list given to stats_to_list.
MaxPoints == 3
\* Longest datapoint sequence given to sum_stats.
MaxSumLen == 2
\* Most webhook calls in a run.
MaxCalls == 2
\* Most dashboard requests in a run, one after another or at the same time.
MaxRequests == 3
\* Most steps of the clock in a run.
MaxTicks == 3
\* Most changes of the remote statistics in a run.
MaxEpoch == 1

\* ----------------------------------------------------------------- strings
Digits == <<"0", "1", "2", "3", "4", "5", "6", "7", "8", "9">>

IsDigit(c) == \E i \in 1..10 : Digits[i] = c

DigitVal(c) == (CHOOSE i \in 1..10 : Digits[i] = c) - 1

\* The code point of a character (the characters the inputs use).
Ord(c) ==
    CASE c = " " -> 32
      [] c = "-" -> 45
      [] IsDigit(c) -> 48 + DigitVal(c)
      [] c = ":" -> 58
      [] c = "T" -> 84
      [] c = "Z" -> 90
      [] c = "x" -> 120

\* a < b for two str values: the order Python's sort uses on str keys.
RECURSIVE StrLess(_, _)
StrLess(a, b) ==
    IF b = <<>> THEN FALSE
    ELSE IF a = <<>> THEN TRUE
    ELSE IF Ord(Head(a)) # Ord(Head(b)) THEN Ord(Head(a)) < Ord(Head(b))
    ELSE StrLess(Tail(a), Tail(b))

\* Two decimal digits, zero padded.
D2(n) == <<Digits[(n \div 10) + 1], Digits[(n % 10) + 1]>>

\* The text 'YYYY-MM-DDTHH:MM:SSZ' that the statistics API gives for a UTC time.
Stamp(year, month, day, hour, minute) ==
    D2(year \div 100) \o D2(year % 100) \o <<"-">> \o D2(month) \o <<"-">>
      \o D2(day) \o <<"T">> \o D2(hour) \o <<":">> \o D2(minute)
      \o <<":", "0", "0", "Z">>

\* ------------------------------------------------------------ date and time
IsLeap(y) == (y % 4 = 0 /\ y % 100 # 0) \/ y % 400 = 0

DaysInMonth(y, m) ==
    IF m = 2 THEN (IF IsLeap(y) THEN 29 ELSE 28)
    ELSE IF m \in {4, 6, 9, 11} THEN 30 ELSE 31

RECURSIVE DaysBeforeMonth(_, _)
DaysBeforeMonth(y, m) ==
    IF m = 1 THEN 0 ELSE DaysBeforeMonth(y, m - 1) + DaysInMonth(y, m - 1)

RECURSIVE DaysBeforeYear(_)
DaysBeforeYear(y) ==
    IF y <= 2012 THEN 0
    ELSE DaysBeforeYear(y - 1) + (IF IsLeap(y - 1) THEN 366 ELSE 365)

\* A naive datetime is the number of seconds of its wall clock since
\* 2012-01-01 00:00:00, the start of the time scale of the model.
NaiveSecs(y, mo, d, h, mi, s) ==
    (((DaysBeforeYear(y) + DaysBeforeMonth(y, mo) + (d - 1)) * 24 + h) * 60 + mi)
      * 60 + s

\* The number that a run of decimal digits denotes.
RECURSIVE DigitsVal(_)
DigitsVal(s) ==
    IF s = <<>> THEN 0
    ELSE DigitsVal(SubSeq(s, 1, Len(s) - 1)) * 10 + DigitVal(s[Len(s)])

AllDigits(s) == \A i \in 1..Len(s) : IsDigit(s[i])

\* datetime.strptime(text, '%Y-%m-%dT%H:%M:%SZ') on zero-padded text:
\* ok is FALSE where strptime raises ValueError.
strptime(text) ==
    LET shape == /\ Len(text) = 20
                 /\ text[5] = "-" /\ text[8] = "-" /\ text[11] = "T"
                 /\ text[14] = ":" /\ text[17] = ":" /\ text[20] = "Z"
                 /\ AllDigits(SubSeq(text, 1, 4)) /\ AllDigits(SubSeq(text, 6, 7))
                 /\ AllDigits(SubSeq(text, 9, 10)) /\ AllDigits(SubSeq(text, 12, 13))
                 /\ AllDigits(SubSeq(text, 15, 16)) /\ AllDigits(SubSeq(text, 18, 19))
        y  == DigitsVal(SubSeq(text, 1, 4))
        mo == DigitsVal(SubSeq(text, 6, 7))
        d  == DigitsVal(SubSeq(text, 9, 10))
        h  == DigitsVal(SubSeq(text, 12, 13))
        mi == DigitsVal(SubSeq(text, 15, 16))
        s  == DigitsVal(SubSeq(text, 18, 19))
    IN  IF shape /\ y >= 2012 /\ mo \in 1..12 /\ d \in 1..DaysInMonth(y, mo)
             /\ h \in 0..23 /\ mi \in 0..59 /\ s \in 0..59
        THEN [ok |-> TRUE, naive |-> NaiveSecs(y, mo, d, h, mi, s)]
        ELSE [ok |-> FALSE, naive |-> 0]

\* The offset from UTC, in seconds, that pytz gives a zone at a UTC time
\* (2012: British Summer Time from 25 March until 28 October, 01:00 UTC).
UtcOffset(zone, utc) ==
    CASE zone = "UTC" -> 0
      [] zone = "Europe/London" ->
            IF /\ utc >= NaiveSecs(2012, 3, 25, 1, 0, 0)
               /\ utc < NaiveSecs(2012, 10, 28, 1, 0, 0)
            THEN 3600 ELSE 0

\* A tzinfo object of pytz: a zone has one tzinfo instance per offset.
TzInfo(zone, off) == [zone |-> zone, off |-> off]

NoTz == TzInfo("", 0)

\* The values a Timestamp field holds: a str, or an aware datetime (its
\* wall clock and its tzinfo).
StrValue(text) == [kind |-> "str", text |-> text, wall |-> 0, tz |-> NoTz]

Aware(wall, tz) == [kind |-> "datetime", text |-> <<>>, wall |-> wall, tz |-> tz]

\* localize.utc.localize(utc_dt): the naive datetime, marked as UTC.
utc_localize(naive) == Aware(naive, TzInfo("UTC", 0))

\* dt.astimezone(tz): the same instant on the wall clock of tz.
astimezone(dt, zone) ==
    LET utc == dt.wall - dt.tz.off
        off == UtcOffset(zone, utc)
    IN  Aware(utc + off, TzInfo(zone, off))

\* current_tz.normalize(dt): the offset of dt corrected to the one that the
\* zone has at the instant of dt.
normalize(dt, zone) == astimezone(dt, zone)

\* A comparison of aware datetimes by their wall clocks alone.
DatetimeLess_wall(a, b) == a.wall < b.wall

\* a < b for two aware datetimes: with the same tzinfo object the wall
\* clocks are compared, otherwise the UTC instants.
DatetimeLess(a, b) ==
    IF a.tz = b.tz THEN a.wall < b.wall
    ELSE a.wall - a.tz.off < b.wall - b.tz.off

\* a < b for two sort keys x['Timestamp'].
KeyLess(a, b) ==
    IF a.kind = "str" /\ b.kind = "str" THEN StrLess(a.text, b.text)
    ELSE DatetimeLess(a, b)

\* ------------------------------------------------------------ stats_to_list
\* The datapoint dict of the statistics API.
Datapoint(ts, b, c, d, r) ==
    [Timestamp |-> ts, Bounces |-> b, Complaints |-> c, DeliveryAttempts |-> d,
     Rejects |-> r]

\* Timestamps of the inputs: three quarter hours around the end of British
\* Summer Time, the first of the next month, and a text that is no timestamp.
GoodStamps ==
    { Stamp(2012, 10, 27, 23, 45), Stamp(2012, 10, 28, 0, 45),
      Stamp(2012, 10, 28, 1, 0), Stamp(2012, 11, 1, 0, 0) }

BadStamp == <<"2", "0", "1", "2", "-", "1", "0", "-", "2", "8", " ", "x">>

StatsInputs ==
    { Datapoint(StrValue(t), b, <<"0">>, <<"1", "2">>, <<"0">>) :
        t \in GoodStamps \cup {BadStamp}, b \in {<<"0">>, <<"7">>} }

TimeZones == {"UTC", "Europe/London"}

\* A copy that shares the caller's list and dicts instead of copying them.
deepcopy_shared(h, refs) == [heap |-> h, refs |-> refs]

\* copy.deepcopy(result): fresh dicts with the same contents, in a fresh list.
deepcopy(h, refs) ==
    LET n == Len(refs)
        top == Cardinality(DOMAIN h)
    IN  [heap |-> [r \in 1..(top + n) |->
                     IF r <= top THEN h[r] ELSE h[refs[r - top]]],
         refs |-> [i \in 1..n |-> top + i]]

\* list.sort(key=lambda x: x['Timestamp']) on a list of refs: the stable
\* sort, by insertion before the first element with a greater key.
RECURSIVE InsertByKey(_, _, _)
InsertByKey(h, r, sorted) ==
    IF sorted = <<>> THEN <<r>>
    ELSE IF KeyLess(h[r].Timestamp, h[Head(sorted)].Timestamp)
         THEN <<r>> \o sorted
         ELSE <<Head(sorted)>> \o InsertByKey(h, r, Tail(sorted))

RECURSIVE SortByTimestamp(_, _)
SortByTimestamp(h, refs) ==
    IF refs = <<>> THEN <<>>
    ELSE InsertByKey(h, refs[Len(refs)],
                     SortByTimestamp(h, SubSeq(refs, 1, Len(refs) - 1)))

\* Lines 42-49: result is looked up and copied, datapoints starts empty.
StatsCopy ==
    /\ pc = "call"
    /\ LET c == deepcopy(heap, stats_dict)
       IN  /\ heap' = c.heap
           /\ result' = c.refs
    /\ datapoints' = <<>>
    /\ idx' = 1
    /\ pc' = "loop"
    /\ UNCHANGED <<stats_dict, entry, localize, time_zone, ret>>
    /\ UNCHANGED not_stats

\* Lines 50-56, one turn of the loop: with a time zone the Timestamp of dp is
\* parsed and replaced in dp by the aware local time; dp joins datapoints.
StatsLoop ==
    /\ pc = "loop"
    /\ idx <= Len(result)
    /\ LET dp == result[idx]
           parsed == strptime(heap[dp].Timestamp.text)
       IN  IF localize /\ ~parsed.ok
           THEN /\ pc' = "raised"
                /\ UNCHANGED <<heap, datapoints, idx>>
           ELSE /\ heap' = IF localize
                           THEN [heap EXCEPT ![dp].Timestamp =
                                    normalize(astimezone(utc_localize(parsed.naive),
                                                         time_zone), time_zone)]
                           ELSE heap
                /\ datapoints' = Append(datapoints, dp)
                /\ idx' = idx + 1
                /\ pc' = "loop"
    /\ UNCHANGED <<stats_dict, entry, localize, time_zone, result, ret>>
    /\ UNCHANGED not_stats

\* Lines 58-60: datapoints is sorted by Timestamp and returned.
StatsSort ==
    /\ pc = "loop"
    /\ idx > Len(result)
    /\ LET sorted == SortByTimestamp(heap, datapoints)
       IN  /\ datapoints' = sorted
           /\ ret' = [i \in 1..Len(sorted) |-> heap[sorted[i]]]
    /\ pc' = "returned"
    /\ UNCHANGED <<heap, stats_dict, entry, localize, time_zone, result, idx>>
    /\ UNCHANGED not_stats

\* ---------------------------------------------------------------- sum_stats
\* int(text) on a str of digits with an optional minus sign: ok is FALSE
\* where int raises ValueError.
int(text) ==
    LET neg == text # <<>> /\ Head(text) = "-"
        body == IF neg THEN Tail(text) ELSE text
    IN  IF body # <<>> /\ AllDigits(body)
        THEN [ok |-> TRUE, val |-> IF neg THEN 0 - DigitsVal(body) ELSE DigitsVal(body)]
        ELSE [ok |-> FALSE, val |-> 0]

\* The four totals, and whether the summing is still running (ok) or has
\* raised ValueError.
Totals(ok, b, c, d, r) ==
    [ok |-> ok, Bounces |-> b, Complaints |-> c, DeliveryAttempts |-> d,
     Rejects |-> r]

\* A loop body that overwrites the totals with the counters of dp.
AddDatapoint_assign(t, dp) ==
    LET b == int(dp.Bounces)
        c == int(dp.Complaints)
        d == int(dp.DeliveryAttempts)
        r == int(dp.Rejects)
    IN  IF ~t.ok \/ ~b.ok \/ ~c.ok \/ ~d.ok \/ ~r.ok
        THEN Totals(FALSE, 0, 0, 0, 0)
        ELSE Totals(TRUE, b.val, c.val, d.val, r.val)

\* Lines 92-95, the loop body: the four counters of dp, as integers, are
\* added to the totals.
AddDatapoint(t, dp) ==
    LET b == int(dp.Bounces)
        c == int(dp.Complaints)
        d == int(dp.DeliveryAttempts)
        r == int(dp.Rejects)
    IN  IF ~t.ok \/ ~b.ok \/ ~c.ok \/ ~d.ok \/ ~r.ok
        THEN Totals(FALSE, 0, 0, 0, 0)
        ELSE Totals(TRUE, t.Bounces + b.val, t.Complaints + c.val,
                    t.DeliveryAttempts + d.val, t.Rejects + r.val)

\* Lines 91-95: the loop over stats_data, from the totals t.
RECURSIVE SumLoop(_, _)
SumLoop(t, stats_data) ==
    IF stats_data = <<>> THEN t
    ELSE SumLoop(AddDatapoint(t, Head(stats_data)), Tail(stats_data))

\* Lines 82-102: the totals start at zero; the result holds the four totals.
sum_stats(stats_data) == SumLoop(Totals(TRUE, 0, 0, 0, 0), stats_data)

\* Datapoints given to sum_stats: counters with one and two digits, with a
\* leading zero, with a minus sign, and one that is no number.
SumInputs ==
    LET ts == StrValue(Stamp(2012, 10, 28, 1, 0))
    IN  { Datapoint(ts, <<"0">>, <<"0">>, <<"1", "2">>, <<"0">>),
          Datapoint(ts, <<"3">>, <<"1">>, <<"4", "0">>, <<"2">>),
          Datapoint(ts, <<"7">>, <<"0">>, <<"0", "5">>, <<"-", "1">>),
          Datapoint(ts, <<"1">>, <<"x">>, <<"1">>, <<"0">>) }

SumArgument(name) ==
    CASE name = "a" -> seq_a
      [] name = "b" -> seq_b
      [] name = "ab" -> seq_a \o seq_b

\* A call of sum_stats on seq_a, on seq_b or on their concatenation.
SumCall(name) ==
    /\ name \notin DOMAIN sums
    /\ sums' = [n \in DOMAIN sums \cup {name} |->
                  IF n = name THEN sum_stats(SumArgument(name)) ELSE sums[n]]
    /\ UNCHANGED <<seq_a, seq_b>>
    /\ UNCHANGED not_sum

\* ------------------------------------------------------------ handle_bounce
\* The Python values that json.loads gives: None, a str, a list, or a dict
\* (a function from its keys to values).
NoItems == [k \in {} |-> 0]

PyNone == [kind |-> "None", str |-> "", items |-> NoItems]

PyStr(text) == [kind |-> "str", str |-> text, items |-> NoItems]

PyList == [kind |-> "list", str |-> "", items |-> NoItems]

PyDict(items) == [kind |-> "dict", str |-> "", items |-> items]

\* d.get(key, default) on a dict d.
Get(d, key, default) == IF key \in DOMAIN d.items THEN d.items[key] ELSE default

\* Only a dict has the method get: on None, a str or a list, x.get raises
\* AttributeError.
HasGet(x) == x.kind = "dict"

\* A request body: whether it is JSON text, and the value the text denotes.
Body(json, doc) == [json |-> json, doc |-> doc]

\* json.loads(raw_json): ok is FALSE where it raises ValueError.
json_loads(raw_json) ==
    IF raw_json.json THEN [ok |-> TRUE, value |-> raw_json.doc]
    ELSE [ok |-> FALSE, value |-> PyNone]

\* What a call does to the outside, in the order it does it.
LogRecord(levelname, msg, args, extra) ==
    [kind |-> "log", name |-> msg, levelname |-> levelname, args |-> args,
     extra |-> extra, mail_obj |-> PyNone, obj |-> PyNone]

Signal(name, mail_obj, obj) ==
    [kind |-> "signal", name |-> name, levelname |-> "", args |-> <<>>,
     extra |-> NoItems, mail_obj |-> mail_obj, obj |-> obj]

\* What the view gives back: a response, or the exception it raised.
Outcome(resp, eff) == [response |-> resp, effects |-> eff]

\* Whether the logger handles a call of logger.info or logger.warning.
isEnabledFor(level, method) ==
    CASE method = "warning" -> level \in {"INFO", "WARNING"}
      [] method = "info" -> level = "INFO"

\* logger.info(msg, *args, extra=...) and logger.warning(...): nothing when the
\* level is disabled; otherwise the record is made, and logging raises
\* KeyError when extra holds the key message or asctime of a LogRecord.
logger_call(level, method, msg, args, extra) ==
    IF ~isEnabledFor(level, method) THEN [raised |-> FALSE, records |-> <<>>]
    ELSE IF \E k \in DOMAIN extra : k \in {"message", "asctime"}
         THEN [raised |-> TRUE, records |-> <<>>]
         ELSE [raised |-> FALSE,
               records |-> <<LogRecord(method, msg, args, extra)>>]

\* A view without the try statement: the ValueError of json.loads escapes.
BadJsonBranch_raise(level) == Outcome("ValueError", <<>>)

\* Lines 174-177: the ValueError of json.loads is logged, the response is 400.
BadJsonBranch(level) ==
    LET lg == logger_call(level, "warning", "Recieved bounce with bad JSON",
                          <<PyStr("No JSON object could be decoded")>>, NoItems)
    IN  Outcome("400", lg.records)

\* Lines 183-202: the bounce branch.
BounceBranch(level, hook_data, mail_obj) ==
    LET bounce_obj == Get(hook_data, "bounce", PyDict(NoItems))
    IN  IF ~HasGet(bounce_obj) THEN Outcome("AttributeError", <<>>)
        ELSE
          LET feedback_id == Get(bounce_obj, "feedbackId", PyNone)
              bounce_type == Get(bounce_obj, "bounceType", PyNone)
              bounce_subtype == Get(bounce_obj, "bounceSubType", PyNone)
              lg == logger_call(level, "info", "Recieved bounce notification",
                                <<feedback_id, bounce_type, bounce_subtype>>,
                                [k \in {"message"} |-> hook_data])
          IN  IF lg.raised THEN Outcome("KeyError", <<>>)
              ELSE Outcome("200", lg.records \o
                             <<Signal("bounce_received", mail_obj, bounce_obj)>>)

\* Lines 205-223: the complaint branch.
ComplaintBranch(level, hook_data, mail_obj) ==
    LET complaint_obj == Get(hook_data, "complaint", PyDict(NoItems))
    IN  IF ~HasGet(complaint_obj) THEN Outcome("AttributeError", <<>>)
        ELSE
          LET feedback_id == Get(complaint_obj, "feedbackId", PyNone)
              feedback_type == Get(complaint_obj, "complaintFeedbackType", PyNone)
              lg == logger_call(level, "info", "Recieved complaint notification",
                                <<feedback_id, feedback_type>>,
                                [k \in {"message"} |-> hook_data])
          IN  IF lg.raised THEN Outcome("KeyError", <<>>)
              ELSE Outcome("200", lg.records \o
                             <<Signal("complaint_received", mail_obj, complaint_obj)>>)

\* Lines 225-228: any other notificationType.
InvalidTypeBranch(level, hook_data, notification_type) ==
    LET lg == logger_call(level, "warning",
                          "Recieved bounce with invalid notificationType",
                          <<notification_type>>, [k \in {"message"} |-> hook_data])
    IN  IF lg.raised THEN Outcome("KeyError", <<>>) ELSE Outcome("400", lg.records)

\* Lines 172-228: the view, on the body raw_json.
handle_bounce(level, raw_json) ==
    LET parsed == json_loads(raw_json)
        hook_data == parsed.value
    IN  IF ~parsed.ok THEN BadJsonBranch(level)
        ELSE IF ~HasGet(hook_data) THEN Outcome("AttributeError", <<>>)
        ELSE
          LET mail_obj == Get(hook_data, "mail", PyNone)
              notification_type == Get(hook_data, "notificationType", PyNone)
          IN  IF notification_type = PyStr("Bounce")
              THEN BounceBranch(level, hook_data, mail_obj)
              ELSE IF notification_type = PyStr("Complaint")
              THEN ComplaintBranch(level, hook_data, mail_obj)
              ELSE InvalidTypeBranch(level, hook_data, notification_type)

\* The JSON objects sent to the webhook: each of the keys mail,
\* notificationType, bounce and complaint is absent or has one of the values
\* listed, an object or not.
Absent == "absent"

MailValues == {PyDict([k \in {"m"} |-> PyStr("1")]), PyNone}

TypeValues == {PyStr("Bounce"), PyStr("Complaint"), PyStr("Other")}

BounceValues ==
    { PyDict([k \in {"feedbackId", "bounceType", "bounceSubType"} |->
                CASE k = "feedbackId" -> PyStr("f1")
                  [] k = "bounceType" -> PyStr("Permanent")
                  [] k = "bounceSubType" -> PyStr("General")]),
      PyStr("x") }

ComplaintValues ==
    { PyDict([k \in {"feedbackId", "complaintFeedbackType"} |->
                CASE k = "feedbackId" -> PyStr("f2")
                  [] k = "complaintFeedbackType" -> PyStr("abuse")]),
      PyStr("x") }

\* The dict with the keys, of the four, that are given a value.
HookObject(m, t, b, c) ==
    LET given == [k \in {"mail", "notificationType", "bounce", "complaint"} |->
                    CASE k = "mail" -> m
                      [] k = "notificationType" -> t
                      [] k = "bounce" -> b
                      [] k = "complaint" -> c]
        keys == { k \in DOMAIN given : given[k] # PyStr(Absent) }
    IN  PyDict([k \in keys |-> given[k]])

OrAbsent(S) == S \cup {PyStr(Absent)}

\* The bodies: text that is no JSON, JSON text of a value that is no object,
\* and JSON text of the objects above.
Bodies ==
    {Body(FALSE, PyNone)}
      \cup { Body(TRUE, v) : v \in {PyNone, PyStr("Bounce"), PyList} }
      \cup { Body(TRUE, HookObject(m, t, b, c)) :
               m \in OrAbsent(MailValues), t \in OrAbsent(TypeValues),
               b \in OrAbsent(BounceValues), c \in OrAbsent(ComplaintValues) }

Sent(eff, name) == SelectSeq(eff, LAMBDA e : e.kind = "signal" /\ e.name = name)

\* Whether a body is JSON text of an object with the notificationType t.
HasType(raw_json, t) ==
    /\ raw_json.json /\ raw_json.doc.kind = "dict"
    /\ "notificationType" \in DOMAIN raw_json.doc.items
    /\ raw_json.doc.items["notificationType"] = PyStr(t)

\* A webhook call: the view runs on the body, the signals it sends reach the
\* receivers.
HandleBounce(raw_json) ==
    /\ calls < MaxCalls
    /\ LET out == handle_bounce(logger_level, raw_json)
       IN  /\ response' = out.response
           /\ effects' = out.effects
           /\ bounce_sink' = bounce_sink \o Sent(out.effects, "bounce_received")
           /\ complaint_sink' =
                 complaint_sink \o Sent(out.effects, "complaint_received")
           /\ classified' =
                 IF HasType(raw_json, "Bounce") \/ HasType(raw_json, "Complaint")
                 THEN classified + 1 ELSE classified
    /\ request' = raw_json
    /\ calls' = calls + 1
    /\ UNCHANGED logger_level
    /\ UNCHANGED not_hook

HookIdle ==
    /\ logger_level = "WARNING" /\ request = Body(FALSE, PyNone) /\ response = ""
    /\ effects = <<>> /\ bounce_sink = <<>> /\ complaint_sink = <<>>
    /\ calls = 0 /\ classified = 0

\* ---------------------------------------------------------------- dashboard
\* Line 152: the cache timeout, in seconds.
CacheTimeout == 60 * 15

\* The clock of the model advances five minutes at a time.
TickSeconds == 5 * 60

\* What a dashboard request gives back: the page rendered from the
\* statistics of an epoch, or an exception; kind "None" is no response.
Response(kind, epoch) == [kind |-> kind, epoch |-> epoch]

NoResponse == Response("None", 0)

CacheEntry(value, expires) == [value |-> value, expires |-> expires]

\* cache.get(cache_key): the value stored, None once it has expired.
cache_get(c, t) == IF t < c.expires THEN c.value ELSE NoResponse

\* The requests of a run. Requests run at the same time, one thread each:
\* a step of the model is one operation of one request on the shared cache
\* or on the remote API, and the steps of different requests, the clock and
\* the remote statistics interleave.
Requests == 1..MaxRequests

\* Where a request continues and what it has raised, if anything.
Continue(at, resp) == [pc |-> at, response |-> resp]

\* A decorator that lets every user through.
superuser_only_open(superuser) == Continue("cache.get", NoResponse)

\* Lines 26-34: _inner raises PermissionDenied for a user who is no
\* superuser and calls the view otherwise.
superuser_only(superuser) ==
    IF ~superuser THEN Continue("raised", Response("PermissionDenied", 0))
    ELSE Continue("cache.get", NoResponse)

\* What the steps of request r leave alone.
DashFrame(r) == UNCHANGED <<now, api_epoch, is_superuser, dash_live>>

\* Request r does the operation op and goes on at the place next.
DashStep(r, op, next) ==
    /\ dash_pc[r] = op
    /\ dash_ops' = [dash_ops EXCEPT ![r] = Append(@, op)]
    /\ dash_pc' = [dash_pc EXCEPT ![r] = next]

\* Lines 30-33: a request arrives at the decorated view.
DashEnter(r, superuser) ==
    /\ dash_pc[r] = "idle"
    /\ r > 1 => dash_pc[r - 1] # "idle"
    /\ LET out == superuser_only(superuser)
       IN  /\ dash_pc' = [dash_pc EXCEPT ![r] = out.pc]
           /\ dash_response' = [dash_response EXCEPT ![r] = out.response]
    /\ is_superuser' = [is_superuser EXCEPT ![r] = superuser]
    /\ dash_live' = [dash_live EXCEPT ![r] = cache_get(cache, now) # NoResponse]
    /\ UNCHANGED <<cache, now, api_epoch, dash_stats, dash_ops>>
    /\ UNCHANGED not_dash

\* Lines 110-113: the cache is read; a cached response is returned as it is.
DashCacheGet(r) ==
    LET cached_view == cache_get(cache, now)
    IN  /\ DashStep(r, "cache.get",
                    IF cached_view # NoResponse THEN "returned"
                    ELSE "get_send_quota")
        /\ dash_response' = [dash_response EXCEPT ![r] = cached_view]
        /\ UNCHANGED <<cache, dash_stats>>
        /\ DashFrame(r)
        /\ UNCHANGED not_dash

\* Lines 124-126: one call of the remote API (api_ok: it answers, otherwise
\* boto raises); get_send_statistics returns the statistics of the moment.
DashApiCall(r, call, next, api_ok) ==
    /\ DashStep(r, call, IF api_ok THEN next ELSE "raised")
    /\ dash_response' =
          [dash_response EXCEPT
              ![r] = IF api_ok THEN @ ELSE Response("BotoServerError", 0)]
    /\ dash_stats' =
          [dash_stats EXCEPT
              ![r] = IF api_ok /\ call = "get_send_statistics" THEN api_epoch ELSE @]
    /\ UNCHANGED cache
    /\ DashFrame(r)
    /\ UNCHANGED not_dash

DashGetSendQuota(r, api_ok) ==
    DashApiCall(r, "get_send_quota", "list_verified_email_addresses", api_ok)

DashListVerifiedEmails(r, api_ok) ==
    DashApiCall(r, "list_verified_email_addresses", "get_send_statistics", api_ok)

DashGetSendStatistics(r, api_ok) ==
    DashApiCall(r, "get_send_statistics", "cache.set", api_ok)

\* Lines 128-153: the page is rendered from what the API returned, cached
\* for CacheTimeout seconds from now, and returned.
DashCacheSet(r) ==
    LET page == Response("page", dash_stats[r])
    IN  /\ DashStep(r, "cache.set", "returned")
        /\ dash_response' = [dash_response EXCEPT ![r] = page]
        /\ cache' = CacheEntry(page, now + CacheTimeout)
        /\ UNCHANGED dash_stats
        /\ DashFrame(r)
        /\ UNCHANGED not_dash

\* Lines 105-153: the steps of the decorated view.
dashboard(r) ==
    \/ \E superuser \in BOOLEAN : DashEnter(r, superuser)
    \/ DashCacheGet(r)
    \/ \E api_ok \in BOOLEAN : DashGetSendQuota(r, api_ok)
    \/ \E api_ok \in BOOLEAN : DashListVerifiedEmails(r, api_ok)
    \/ \E api_ok \in BOOLEAN : DashGetSendStatistics(r, api_ok)
    \/ DashCacheSet(r)

\* Time passes.
Tick ==
    /\ now < MaxTicks * TickSeconds
    /\ now' = now + TickSeconds
    /\ UNCHANGED <<cache, api_epoch, dash_pc, is_superuser, dash_stats,
                   dash_response, dash_ops, dash_live>>
    /\ UNCHANGED not_dash

\* The statistics that the remote API holds change.
StatsChange ==
    /\ api_epoch < MaxEpoch
    /\ api_epoch' = api_epoch + 1
    /\ UNCHANGED <<cache, now, dash_pc, is_superuser, dash_stats, dash_response,
                   dash_ops, dash_live>>
    /\ UNCHANGED not_dash

DashIdle ==
    /\ cache = CacheEntry(NoResponse, 0) /\ now = 0 /\ api_epoch = 0
    /\ dash_pc = [r \in Requests |-> "idle"]
    /\ is_superuser = [r \in Requests |-> FALSE]
    /\ dash_stats = [r \in Requests |-> 0]
    /\ dash_response = [r \in Requests |-> NoResponse]
    /\ dash_ops = [r \in Requests |-> <<>>]
    /\ dash_live = [r \in Requests |-> FALSE]

SumIdle == /\ seq_a = <<>> /\ seq_b = <<>> /\ sums = <<>>

StatsIdle ==
    /\ heap = <<>> /\ stats_dict = <<>> /\ entry = <<>> /\ localize = FALSE
    /\ time_zone = "UTC" /\ result = <<>> /\ datapoints = <<>> /\ idx = 0
    /\ pc = "idle" /\ ret = <<>>

\* --------------------------------------------------------- specifications
\* A call of stats_to_list on a statistics response of up to MaxPoints
\* datapoints, with pytz and a configured zone or without pytz.
InitStats ==
    /\ \E n \in 0..MaxPoints : heap \in [1..n -> StatsInputs]
    /\ stats_dict = [i \in 1..Len(heap) |-> i]
    /\ entry = heap
    /\ localize \in BOOLEAN
    /\ time_zone \in (IF localize THEN TimeZones ELSE {"UTC"})
    /\ result = <<>> /\ datapoints = <<>> /\ idx = 0 /\ ret = <<>>
    /\ pc = "call"
    /\ SumIdle /\ HookIdle /\ DashIdle

NextStats == StatsCopy \/ StatsLoop \/ StatsSort

SpecStats == InitStats /\ [][NextStats]_vars

\* Calls of sum_stats on two datapoint sequences of up to MaxSumLen
\* datapoints and on their concatenation.
SeqsUpTo(S, n) == UNION { [1..k -> S] : k \in 0..n }

InitSum ==
    /\ seq_a \in SeqsUpTo(SumInputs, MaxSumLen)
    /\ seq_b \in SeqsUpTo(SumInputs, MaxSumLen)
    /\ sums = [n \in {} |-> 0]
    /\ StatsIdle /\ HookIdle /\ DashIdle

NextSum == \E name \in {"a", "b", "ab"} : SumCall(name)

SpecSum == InitSum /\ [][NextSum]_vars

\* Webhook calls, up to MaxCalls of them, under a logging configuration that
\* enables INFO and WARNING, WARNING alone (the default), or neither.
InitHook ==
    /\ logger_level \in {"INFO", "WARNING", "CRITICAL"}
    /\ request = Body(FALSE, PyNone) /\ response = "" /\ effects = <<>>
    /\ bounce_sink = <<>> /\ complaint_sink = <<>>
    /\ calls = 0 /\ classified = 0
    /\ StatsIdle /\ SumIdle /\ DashIdle

NextHook == \E raw_json \in Bodies : HandleBounce(raw_json)

SpecHook == InitHook /\ [][NextHook]_vars

\* Dashboard requests by superusers and by other users, up to MaxRequests of
\* them and interleaved in every way, while time passes and the remote
\* statistics change.
InitDash == DashIdle /\ StatsIdle /\ SumIdle /\ HookIdle

NextDash ==
    \/ \E r \in Requests : dashboard(r)
    \/ Tick
    \/ StatsChange

SpecDash == InitDash /\ [][NextDash]_vars

\* ------------------------------------------------------------------ claims
\* The instant, in seconds on the UTC scale, that a Timestamp value denotes.
Instant(ts) ==
    IF ts.kind = "str" THEN strptime(ts.text).naive ELSE ts.wall - ts.tz.off

EntryWellFormed ==
    \A i \in 1..Len(entry) : strptime(entry[i].Timestamp.text).ok

\* What identifies a datapoint: its instant and its four counters.
Identity(dp) ==
    <<IF strptime(dp.Timestamp.text).ok \/ dp.Timestamp.kind = "datetime"
      THEN Instant(dp.Timestamp) ELSE -1,
      dp.Timestamp.kind = "str" /\ ~strptime(dp.Timestamp.text).ok,
      dp.Bounces, dp.Complaints, dp.DeliveryAttempts, dp.Rejects>>

Count(seq, id) == Cardinality({ i \in 1..Len(seq) : Identity(seq[i]) = id })

\* C1: when stats_to_list returns, with or without time zone conversion, it
\* returns as many datapoints as SendDataPoints holds, one for each input
\* datapoint, and, for well-formed timestamps, in ascending order of the
\* instants of the timestamps.
C1_SortedPermutation ==
    pc = "returned" =>
        /\ Len(ret) = Len(entry)
        /\ \A i \in 1..Len(entry) :
              Count(ret, Identity(entry[i])) = Count(entry, Identity(entry[i]))
        /\ EntryWellFormed =>
              \A i, j \in 1..Len(ret) :
                  i < j => Instant(ret[i].Timestamp) <= Instant(ret[j].Timestamp)

\* A return with conversion to London time of three datapoints that came out
\* of order and lie on both sides of the end of summer time.
C1_Witness ==
    /\ pc = "returned" /\ localize /\ time_zone = "Europe/London"
    /\ Len(ret) = 3
    /\ Instant(entry[1].Timestamp) > Instant(entry[2].Timestamp)
    /\ ret[1].Timestamp.tz.off # ret[3].Timestamp.tz.off
    /\ ret[1].Timestamp.wall > ret[3].Timestamp.wall

\* C2: at every point of a call of stats_to_list, also after it has returned
\* or raised, the caller's SendDataPoints list holds the same dicts in the
\* same order, each with the fields it had at the call.
C2_InputUnchanged ==
    /\ stats_dict = [i \in 1..Len(entry) |-> i]
    /\ \A i \in 1..Len(entry) : heap[stats_dict[i]] = entry[i]

\* A call that raised on a malformed timestamp after it had converted the
\* timestamp of an earlier datapoint.
C2_Witness ==
    /\ pc = "raised" /\ idx >= 2
    /\ heap[result[1]].Timestamp.kind = "datetime"

\* C8: sum_stats of the empty sequence is zero in the four fields, and where
\* sum_stats succeeds on a and on b it succeeds on a \o b with, in each
\* field, the sum of the two results.
C8_SumAdditive ==
    /\ \A n \in DOMAIN sums :
          SumArgument(n) = <<>> => sums[n] = Totals(TRUE, 0, 0, 0, 0)
    /\ (DOMAIN sums = {"a", "b", "ab"} /\ sums["a"].ok /\ sums["b"].ok) =>
          /\ sums["ab"].ok
          /\ sums["ab"].Bounces = sums["a"].Bounces + sums["b"].Bounces
          /\ sums["ab"].Complaints = sums["a"].Complaints + sums["b"].Complaints
          /\ sums["ab"].DeliveryAttempts =
                sums["a"].DeliveryAttempts + sums["b"].DeliveryAttempts
          /\ sums["ab"].Rejects = sums["a"].Rejects + sums["b"].Rejects

\* The three sums of two non-empty sequences whose counters are all numbers.
C8_Witness ==
    /\ DOMAIN sums = {"a", "b", "ab"}
    /\ Len(seq_a) = 2 /\ Len(seq_b) >= 1 /\ seq_a[1] # seq_a[2]
    /\ sums["a"].ok /\ sums["b"].ok
    /\ sums["ab"].DeliveryAttempts > sums["a"].DeliveryAttempts
    /\ sums["ab"].Rejects < sums["a"].Rejects

\* The signals among the effects of a call.
Emitted(eff) == SelectSeq(eff, LAMBDA e : e.kind = "signal")

\* Whether the latest call had a JSON object as its body.
ObjectRequest == calls > 0 /\ request.json /\ request.doc.kind = "dict"

RequestKeys == DOMAIN request.doc.items

Recognized == HasType(request, "Bounce") \/ HasType(request, "Complaint")

EmptyMapping == PyDict(NoItems)

\* C3: a call whose body is a JSON object with notificationType Bounce, a
\* mail value and a bounce value returns 200 and emits one signal, to the
\* bounce receivers, with these two values; likewise for Complaint, the
\* complaint receivers and the complaint value.
C3_Original ==
    (ObjectRequest /\ "mail" \in RequestKeys) =>
        /\ (HasType(request, "Bounce") /\ "bounce" \in RequestKeys) =>
              /\ response = "200"
              /\ Emitted(effects) =
                    <<Signal("bounce_received", request.doc.items["mail"],
                             request.doc.items["bounce"])>>
        /\ (HasType(request, "Complaint") /\ "complaint" \in RequestKeys) =>
              /\ response = "200"
              /\ Emitted(effects) =
                    <<Signal("complaint_received", request.doc.items["mail"],
                             request.doc.items["complaint"])>>

\* C4: after any sequence of calls the receivers have got as many signals as
\* there were calls classified as Bounce or Complaint, duplicates included,
\* and a call emits one signal if it is such a call and none otherwise.
C4_Original ==
    /\ Len(bounce_sink) + Len(complaint_sink) = classified
    /\ calls > 0 => Len(Emitted(effects)) = IF Recognized THEN 1 ELSE 0

\* C5: a call whose body is no JSON text returns 400, raises nothing and
\* emits nothing to the bounce receivers or the complaint receivers.
C5_BadJsonIs400 ==
    [][(calls' = calls + 1 /\ ~request'.json) =>
          /\ response' = "400"
          /\ Emitted(effects') = <<>>
          /\ bounce_sink' = bounce_sink
          /\ complaint_sink' = complaint_sink]_vars

\* A call with a body that is no JSON, logged and answered with 400, after a
\* call that emitted a bounce.
C5_Witness ==
    /\ calls = 2 /\ ~request.json /\ response = "400"
    /\ Len(bounce_sink) = 1 /\ Len(effects) = 1

\* C6: a call whose body is JSON text of any value, with a notificationType
\* that is absent or neither Bounce nor Complaint, returns 400 and emits
\* nothing.
C6_Original ==
    (calls > 0 /\ request.json /\ ~Recognized) =>
        /\ response = "400"
        /\ Emitted(effects) = <<>>

\* C7: a Bounce or Complaint call whose payload lacks the mail key, or the
\* bounce key or complaint key of its type, returns 200 and emits a signal
\* that carries an empty mapping for each sub-object that is missing.
C7_Original ==
    LET detail == IF HasType(request, "Bounce") THEN "bounce" ELSE "complaint"
    IN  (ObjectRequest /\ Recognized
           /\ ("mail" \notin RequestKeys \/ detail \notin RequestKeys)) =>
            /\ response = "200"
            /\ Len(Emitted(effects)) = 1
            /\ "mail" \notin RequestKeys =>
                  Emitted(effects)[1].mail_obj = EmptyMapping
            /\ detail \notin RequestKeys => Emitted(effects)[1].obj = EmptyMapping

\* C9: every call that ends in one of the four branches has emitted a log
\* record that carries the payload, and has emitted it before any signal.
C9_Original ==
    (calls > 0 /\ response \in {"200", "400"}) =>
        \E i \in 1..Len(effects) :
            /\ effects[i].kind = "log"
            /\ "message" \in DOMAIN effects[i].extra
            /\ effects[i].extra["message"] = request.doc
            /\ \A j \in 1..Len(effects) : effects[j].kind = "signal" => i < j

\* C10: in any interleaving of dashboard requests, a request of a user who
\* is no superuser has raised PermissionDenied as soon as it has arrived,
\* has done no cache read, API call or cache write, never does one, and its
\* arrival leaves the cache as it is, whatever the cache holds.
C10_NonSuperuserDenied ==
    [][/\ \A r \in Requests :
             (dash_pc'[r] # "idle" /\ ~is_superuser'[r]) =>
                 /\ dash_pc'[r] = "raised"
                 /\ dash_response'[r] = Response("PermissionDenied", 0)
                 /\ dash_ops'[r] = <<>>
       /\ (\E r \in Requests :
              dash_pc[r] = "idle" /\ dash_pc'[r] # "idle" /\ ~is_superuser'[r])
             => cache' = cache]_vars

\* A request of a user who is no superuser, denied on arriving while the
\* cache held a live page that a superuser's request had put there.
C10_Witness ==
    \E r \in Requests :
        /\ ~is_superuser[r] /\ dash_live[r]
        /\ dash_response[r] = Response("PermissionDenied", 0)
        /\ \E q \in Requests :
              /\ is_superuser[q] /\ dash_pc[q] = "returned"
              /\ dash_ops[q][Len(dash_ops[q])] = "cache.set"

\* Two requests of superusers that ran at the same time: both missed the
\* cache, both asked the API and both wrote the cache.
DashBothMiss ==
    \E q, r \in Requests :
        /\ q # r /\ dash_pc[q] = "returned" /\ dash_pc[r] = "returned"
        /\ Len(dash_ops[q]) = 5 /\ Len(dash_ops[r]) = 5
        /\ cache.expires > CacheTimeout
        /\ dash_response[q] # dash_response[r]

====
